---- MODULE Spec2Model ----
(***************************************************************************)
(* A model of Archive/pull_data.py: the Question Collector                 *)
(* (collect_all_questions over fetch_nlp_questions, load_questions and     *)
(* save_questions), the Answer Fetcher (fetch_answers_for_questions) and   *)
(* the QA Joiner (process_questions_with_answers).                         *)
(*                                                                         *)
(* The program is sequential.  Every HTTP request and every file write is  *)
(* a step of its own, so that a KeyboardInterrupt or an exception can      *)
(* arrive between any two of them.  The remote API and the file system     *)
(* are the environment: each response is drawn from a bounded set.         *)
(***************************************************************************)
EXTENDS Integers, Sequences, FiniteSets, TLC

VARIABLES
    scope,          \* what is run, and how much of it is observed: "collector" (Collector
                    \* runs, observed), "liveness" (Collector runs), "pipeline" (Collector
                    \* and Joiner runs, Joiner observed), "answers" (the Answer Fetcher)
    \* ---- the two files ----
    qfile,          \* output_file of the Collector / questions_file of the Joiner
    tfile,          \* output_file of the Joiner (the CSV table)
    \* ---- collect_all_questions: position and locals ----
    cpc,            \* position of the Collector
    start_page, max_pages, save_interval,   \* its arguments
    all_questions, existing_ids,
    page_num, questions, quota, new_count,
    idx,            \* position of `for q in questions`
    \* ---- observations of one Collector run ----
    loaded,         \* what load_questions returned at line 114
    fetches,        \* the last two requests fetch_nlp_questions issued, with their responses
    saves,          \* the calls of save_questions, in order
    returned,       \* the question ids the API returned in this run
    exit,           \* how the page loop was left
    \* ---- fetch_answers_for_questions: position and locals ----
    fpc, question_ids, top_n, fi, all_answers,
    got,            \* observation: the answers of the 200 responses of this call, in order
    \* ---- process_questions_with_answers: position and locals ----
    jpc, batch_size, jtop_n, existing_df, processed_ids, to_process, i, results,
    \* ---- observations of one Joiner run ----
    table0,         \* the table file when the run started
    jfetches        \* the calls of fetch_answers_for_questions: ids asked, quotas reported

cargs == <<start_page, max_pages, save_interval>>
clocals == <<all_questions, existing_ids, page_num, questions, quota, new_count, idx>>
cobs == <<loaded, fetches, saves, returned, exit>>
cvars == <<cpc, cargs, clocals, cobs>>
fvars == <<fpc, question_ids, top_n, fi, all_answers, got>>
jlocals == <<batch_size, jtop_n, existing_df, processed_ids, to_process, i, results>>
jobs == <<table0, jfetches>>
jvars == <<jpc, jlocals, jobs>>
vars == <<scope, qfile, tfile, cvars, fvars, jvars>>

(***************************************************************************)
(* Bounds of the model.                                                    *)
(***************************************************************************)
MaxId == 2              \* question ids are 1..MaxId
MaxPages == 2           \* max_pages is drawn from 1..MaxPages
IDs == 1 .. MaxId
PageLens == {0, 1, 2}   \* lengths of the "items" array of a questions response
StartPages == {1, 2}    \* values of start_page
SaveIntervals == {1, 2} \* values of save_interval
Quotas == {3, 5}        \* values of "quota_remaining": one below, one at the threshold

(***************************************************************************)
(* Helpers over sequences.                                                 *)
(***************************************************************************)
SeqsUpTo(S, n) == UNION {[1 .. k -> S] : k \in 0 .. n}
Range(s) == {s[k] : k \in DOMAIN s}
Get(d, k, default) == IF k \in DOMAIN d THEN d[k] ELSE default

RECURSIVE JoinWith(_, _)
\* sep.join(parts)
JoinWith(sep, parts) ==
    IF parts = <<>> THEN ""
    ELSE IF Len(parts) = 1 THEN parts[1]
    ELSE parts[1] \o sep \o JoinWith(sep, Tail(parts))

(***************************************************************************)
(* The remote questions endpoint.  An item of "items" is determined by its *)
(* question_id; item 2 comes without the optional fields.                  *)
(***************************************************************************)
RawQuestion(id) ==
    IF id = 2
    THEN [question_id |-> id]
    ELSE [question_id |-> id, title |-> "t", body |-> <<"<p>", "w", " ", " ", "w", "</p>">>,
          score |-> 4, creation_date |-> 100, view_count |-> 9, answer_count |-> 2,
          tags |-> <<"nlp", "python">>]

\* a response: the HTTP status, and the decoded body of a 200
QuestionResponses ==
    {[status |-> 200, items |-> p, quota_remaining |-> qr] :
        p \in {s \in SeqsUpTo(IDs, 2) : Len(s) \in PageLens}, qr \in Quotas}
    \cup {[status |-> 500, items |-> <<>>, quota_remaining |-> 0]}

(***************************************************************************)
(* fetch_nlp_questions, lines 44-71: the pair (questions, quota) it        *)
(* returns for a response.                                                 *)
(***************************************************************************)
ProcessQuestion(q) ==
    [question_id |-> q.question_id,
     title |-> Get(q, "title", ""),
     body |-> Get(q, "body", <<>>),
     score |-> Get(q, "score", 0),
     creation_date |-> Get(q, "creation_date", 0),
     view_count |-> Get(q, "view_count", 0),
     answer_count |-> Get(q, "answer_count", 0),
     tags |-> JoinWith(";", Get(q, "tags", <<>>))]

fetch_nlp_questions(resp) ==
    IF resp.status = 200
    THEN [questions |-> [k \in DOMAIN resp.items |-> ProcessQuestion(RawQuestion(resp.items[k]))],
          quota |-> resp.quota_remaining]
    ELSE [questions |-> <<>>, quota |-> 0]

(***************************************************************************)
(* The questions file: absent, a JSON array, or torn by a failed write.    *)
(***************************************************************************)
Absent == [state |-> "absent", data |-> <<>>]
Torn == [state |-> "torn", data |-> <<>>]
\* save_questions, lines 74-78, when it returns
save_questions(qs) == [state |-> "ok", data |-> qs]
\* save_questions when open() or json.dump raises: the old file, or a torn one
FailedSave(old) == {old, Torn}
\* load_questions, lines 81-90 (json.load raises on a torn file)
load_questions(file) == IF file.state = "ok" THEN file.data ELSE <<>>
LoadRaises(file) == file.state = "torn"

QIds(qs) == {qs[k].question_id : k \in DOMAIN qs}

(***************************************************************************)
(* collect_all_questions                                                   *)
(***************************************************************************)
LowQuota == 5

\* the arguments of a run: all of them, but one in a pipeline
CollectorArgs ==
    IF scope = "pipeline"
    THEN {<<1, MaxPages, 1>>}
    ELSE StartPages \X (1 .. MaxPages) \X SaveIntervals
\* the observations are kept in the scope "collector" only; of the requests,
\* the last two
Record(log, entry) == IF scope = "collector" THEN Append(log, entry) ELSE log
RecordLast(log, entry) ==
    IF scope # "collector" THEN log
    ELSE IF Len(log) < 2 THEN Append(log, entry) ELSE <<log[2], entry>>

\* what an observer of the wire records of one request: the page asked for, by
\* which call, the status, the size of "items", how many of its ids the
\* collection did not hold yet, the quota fetch_nlp_questions reported, how
\* many times save_questions had been called before, and whether the request
\* before it was the loop's for the page before, bringing nothing new
Observed(page, kind, resp) ==
    [page |-> page, kind |-> kind, status |-> resp.status, n |-> Len(resp.items),
     new |-> Cardinality(Range(resp.items) \ existing_ids),
     quota |-> fetch_nlp_questions(resp).quota, saved |-> Len(saves),
     after_stale |-> /\ fetches # <<>>
                     /\ fetches[Len(fetches)].kind = "loop"
                     /\ fetches[Len(fetches)].page = page - 1
                     /\ fetches[Len(fetches)].new = 0]
\* what an observer of the file system records of one call of save_questions
Saved(page, kind, ok) == [page |-> page, kind |-> kind, ok |-> ok, arg |-> all_questions]

InLoop == {"fetch", "append", "add", "interval", "check", "lookahead"}

\* the `for page_num in range(start_page, start_page + max_pages)` header,
\* reached from the end of the body (after time.sleep)
NextIteration ==
    IF page_num + 1 < start_page + max_pages
    THEN /\ cpc' = "fetch"
         /\ page_num' = page_num + 1
         /\ exit' = exit
    ELSE /\ cpc' = "final"
         /\ page_num' = page_num
         /\ exit' = "range"

\* the locals of a call that is over
CollectorGone ==
    /\ cpc' = "idle"
    /\ start_page' = 0 /\ max_pages' = 0 /\ save_interval' = 1 /\ page_num' = 0
    /\ all_questions' = <<>> /\ existing_ids' = {} /\ questions' = <<>>
    /\ quota' = 0 /\ new_count' = 0 /\ idx' = 0
    /\ loaded' = <<>> /\ fetches' = <<>> /\ saves' = <<>> /\ returned' = {} /\ exit' = "none"

\* lines 113-121: load, build the seen-set, enter the loop; json.load raising
\* on a torn file leaves the function at once
CollectStart ==
    /\ cpc = "idle" /\ jpc = "idle" /\ scope # "answers"
    /\ IF LoadRaises(qfile)
       THEN UNCHANGED <<cpc, cargs, clocals, cobs>>
       ELSE /\ \E a \in CollectorArgs :
                /\ start_page' = a[1]
                /\ max_pages' = a[2]
                /\ save_interval' = a[3]
                /\ page_num' = a[1]
            /\ cpc' = "fetch"
            /\ all_questions' = load_questions(qfile)
            /\ existing_ids' = QIds(load_questions(qfile))
            /\ loaded' = IF scope = "pipeline" THEN loaded ELSE load_questions(qfile)
            /\ UNCHANGED <<questions, quota, new_count, idx, fetches, saves, returned, exit>>
    /\ UNCHANGED <<scope, qfile, tfile, fvars, jvars>>

\* line 123 and line 126: one request for page_num
FetchPage ==
    /\ cpc = "fetch"
    /\ \E resp \in QuestionResponses :
        /\ questions' = fetch_nlp_questions(resp).questions
        /\ quota' = fetch_nlp_questions(resp).quota
        /\ fetches' = RecordLast(fetches, Observed(page_num, "loop", resp))
        /\ returned' = IF scope = "collector" THEN returned \cup Range(resp.items) ELSE returned
    /\ new_count' = 0
    /\ idx' = 1
    /\ cpc' = "append"
    /\ UNCHANGED <<scope, qfile, tfile, cargs, all_questions, existing_ids, page_num,
                   loaded, saves, exit, fvars, jvars>>

\* lines 127-129: the test of one question and its append
MergeAppend ==
    /\ cpc = "append"
    /\ IF idx > Len(questions)
       THEN /\ cpc' = "interval"
            /\ UNCHANGED <<all_questions, idx>>
       ELSE IF questions[idx].question_id \notin existing_ids
            THEN /\ all_questions' = Append(all_questions, questions[idx])
                 /\ cpc' = "add"
                 /\ idx' = idx
            ELSE /\ idx' = idx + 1
                 /\ UNCHANGED <<all_questions, cpc>>
    /\ UNCHANGED <<scope, qfile, tfile, cargs, existing_ids, page_num, questions, quota,
                   new_count, cobs, fvars, jvars>>

\* a faulty variant, as if line 130 were missing: the seen-set is not updated
MergeAdd_Forgets ==
    /\ cpc = "add"
    /\ new_count' = new_count + 1
    /\ idx' = idx + 1
    /\ cpc' = "append"
    /\ UNCHANGED <<scope, qfile, tfile, cargs, all_questions, existing_ids, page_num, questions,
                   quota, cobs, fvars, jvars>>

\* lines 130-131
MergeAdd ==
    /\ cpc = "add"
    /\ existing_ids' = existing_ids \cup {questions[idx].question_id}
    /\ new_count' = new_count + 1
    /\ idx' = idx + 1
    /\ cpc' = "append"
    /\ UNCHANGED <<scope, qfile, tfile, cargs, all_questions, page_num, questions, quota,
                   cobs, fvars, jvars>>

\* a faulty variant, as if line 136 tested nothing: every page is saved
IntervalSave_Always ==
    /\ cpc = "interval"
    /\ qfile' = save_questions(all_questions)
    /\ saves' = Record(saves, Saved(page_num, "interval", TRUE))
    /\ cpc' = "check"
    /\ UNCHANGED <<scope, tfile, cargs, clocals, loaded, fetches, returned, exit, fvars, jvars>>

\* lines 136-137, save_questions returning
IntervalSave ==
    /\ cpc = "interval"
    /\ IF page_num % save_interval = 0
       THEN /\ qfile' = save_questions(all_questions)
            /\ saves' = Record(saves, Saved(page_num, "interval", TRUE))
       ELSE UNCHANGED <<qfile, saves>>
    /\ cpc' = "check"
    /\ UNCHANGED <<scope, tfile, cargs, clocals, loaded, fetches, returned, exit, fvars, jvars>>

\* lines 136-137, save_questions raising: caught at line 158
IntervalSaveRaises ==
    /\ cpc = "interval"
    /\ page_num % save_interval = 0
    /\ qfile' \in FailedSave(qfile)
    /\ saves' = Record(saves, Saved(page_num, "interval", FALSE))
    /\ cpc' = "final"
    /\ exit' = "exception"
    /\ UNCHANGED <<scope, tfile, cargs, clocals, loaded, fetches, returned, fvars, jvars>>

\* a faulty variant, as if lines 140-142 were missing: a low quota stops nothing
QuotaCheck_NoQuota ==
    /\ cpc = "check"
    /\ IF Len(questions) = 0
       THEN /\ cpc' = "lookahead"
            /\ UNCHANGED <<page_num, exit>>
       ELSE NextIteration
    /\ UNCHANGED <<scope, qfile, tfile, cargs, all_questions, existing_ids, questions, quota,
                   new_count, idx, loaded, fetches, saves, returned, fvars, jvars>>

\* a faulty variant, as if line 145 tested new_count == 0: a page of stored ids
\* starts the confirmation
QuotaCheck_NewCount ==
    /\ cpc = "check"
    /\ IF quota < LowQuota
       THEN /\ cpc' = "final"
            /\ exit' = "quota"
            /\ UNCHANGED page_num
       ELSE IF new_count = 0
            THEN /\ cpc' = "lookahead"
                 /\ UNCHANGED <<page_num, exit>>
            ELSE NextIteration
    /\ UNCHANGED <<scope, qfile, tfile, cargs, all_questions, existing_ids, questions, quota,
                   new_count, idx, loaded, fetches, saves, returned, fvars, jvars>>

\* lines 140-146 and 154: the quota test, the emptiness test, the sleep
QuotaCheck ==
    /\ cpc = "check"
    /\ IF quota < LowQuota
       THEN /\ cpc' = "final"
            /\ exit' = "quota"
            /\ UNCHANGED page_num
       ELSE IF Len(questions) = 0
            THEN /\ cpc' = "lookahead"
                 /\ UNCHANGED <<page_num, exit>>
            ELSE NextIteration
    /\ UNCHANGED <<scope, qfile, tfile, cargs, all_questions, existing_ids, questions, quota,
                   new_count, idx, loaded, fetches, saves, returned, fvars, jvars>>

\* lines 148-151: the request for page_num + 1, whose questions are only
\* counted and whose quota is dropped
LookAhead ==
    /\ cpc = "lookahead"
    /\ \E resp \in QuestionResponses :
        /\ fetches' = RecordLast(fetches, Observed(page_num + 1, "lookahead", resp))
        /\ returned' = IF scope = "collector" THEN returned \cup Range(resp.items) ELSE returned
        /\ IF Len(fetch_nlp_questions(resp).questions) = 0
           THEN /\ cpc' = "final"
                /\ exit' = "end"
                /\ UNCHANGED page_num
           ELSE NextIteration
    /\ UNCHANGED <<scope, qfile, tfile, cargs, all_questions, existing_ids, questions, quota,
                   new_count, idx, loaded, saves, fvars, jvars>>

\* requests.get raising inside fetch_nlp_questions (lines 123, 148): caught at line 158
FetchRaises ==
    /\ cpc \in {"fetch", "lookahead"}
    /\ cpc' = "final"
    /\ exit' = "exception"
    /\ UNCHANGED <<scope, qfile, tfile, cargs, clocals, loaded, fetches, saves, returned,
                   fvars, jvars>>

\* a faulty variant, as if line 156 were missing: Ctrl-C ends the process
KeyboardInterrupt_Uncaught ==
    /\ cpc \in InLoop
    /\ CollectorGone
    /\ UNCHANGED <<scope, qfile, tfile, fvars, jvars>>

\* Ctrl-C anywhere in the try block: caught at line 156
KeyboardInterrupt ==
    /\ cpc \in InLoop
    /\ cpc' = "final"
    /\ exit' = "interrupt"
    /\ UNCHANGED <<scope, qfile, tfile, cargs, clocals, loaded, fetches, saves, returned,
                   fvars, jvars>>

\* lines 161-163, save_questions returning
FinalSave ==
    /\ cpc = "final"
    /\ qfile' = save_questions(all_questions)
    /\ saves' = Record(saves, Saved(0, "final", TRUE))
    /\ cpc' = "done"
    /\ UNCHANGED <<scope, tfile, cargs, clocals, loaded, fetches, returned, exit, fvars, jvars>>

\* line 162, save_questions raising: the exception leaves collect_all_questions
FinalSaveRaises ==
    /\ cpc = "final"
    /\ qfile' \in FailedSave(qfile)
    /\ CollectorGone
    /\ UNCHANGED <<scope, tfile, fvars, jvars>>

\* line 163: the call returns
CollectReturn ==
    /\ cpc = "done"
    /\ CollectorGone
    /\ UNCHANGED <<scope, qfile, tfile, fvars, jvars>>

CollectorNext ==
    \/ CollectStart
    \/ FetchPage
    \/ MergeAppend
    \/ MergeAdd
    \/ IntervalSave
    \/ IntervalSaveRaises
    \/ QuotaCheck
    \/ LookAhead
    \/ FetchRaises
    \/ KeyboardInterrupt
    \/ FinalSave
    \/ FinalSaveRaises
    \/ CollectReturn

(***************************************************************************)
(* clean_html, lines 169-179, over a text cut into tokens: a tag, a        *)
(* whitespace character, or a word.  get_text(separator=" ", strip=True)   *)
(* joins the stripped text nodes with a space; the regular expression then *)
(* turns every run of whitespace into one space and strips the ends.       *)
(***************************************************************************)
Tags == {"<p>", "</p>", "<br>"}
Whitespace == {" ", "\n"}

\* soup.get_text(separator=" "): every tag separates two text nodes
GetText(html) == [k \in DOMAIN html |-> IF html[k] \in Tags THEN " " ELSE html[k]]

RECURSIVE Squeeze(_)
\* re.sub(r"\s+", " ", text)
Squeeze(ts) ==
    IF ts = <<>> THEN <<>>
    ELSE IF Head(ts) \in Whitespace
         THEN IF Len(ts) > 1 /\ ts[2] \in Whitespace
              THEN Squeeze(Tail(ts))
              ELSE <<" ">> \o Squeeze(Tail(ts))
         ELSE <<Head(ts)>> \o Squeeze(Tail(ts))

\* str.strip() of a text whose whitespace is already squeezed
Strip(ts) ==
    LET a == IF ts # <<>> /\ Head(ts) = " " THEN Tail(ts) ELSE ts
    IN  IF a # <<>> /\ a[Len(a)] = " " THEN SubSeq(a, 1, Len(a) - 1) ELSE a

clean_html(html_text) ==
    IF html_text = <<>> THEN "" ELSE JoinWith("", Strip(Squeeze(GetText(html_text))))

(***************************************************************************)
(* The remote answers endpoint.  An item is determined by its answer_id;   *)
(* a response to a request for a batch of question ids holds answers of    *)
(* those questions, each at most once, in any order.                       *)
(***************************************************************************)
MaxAnswerId == 5        \* answer ids are 1..MaxAnswerId
MaxItems == 3           \* length of the "items" array of an answers response
MaxTopN == 2            \* top_n is drawn from 0..MaxTopN
AnswerQuotas == {50, 100}   \* "quota_remaining": one below, one at the threshold

RawAnswer(a) ==
    CASE a = 1 -> [answer_id |-> 1, question_id |-> 1, score |-> 5, is_accepted |-> TRUE,
                   owner |-> [user_id |-> "7"], body |-> <<"<p>", "ok", "</p>">>]
      [] a = 2 -> [answer_id |-> 2, question_id |-> 1, score |-> 1]
      [] a = 3 -> [answer_id |-> 3, question_id |-> 1, score |-> 7, is_accepted |-> FALSE,
                   owner |-> [display_name |-> "x"], body |-> <<"w", "\n", " ", "w">>]
      [] a = 4 -> [answer_id |-> 4, question_id |-> 1, score |-> 2, is_accepted |-> TRUE,
                   owner |-> [user_id |-> "8"]]
      [] a = 5 -> [answer_id |-> 5, question_id |-> 2, score |-> 3, is_accepted |-> TRUE]
      [] OTHER -> [answer_id |-> a, question_id |-> 1, score |-> 7, is_accepted |-> FALSE]

\* the answers the endpoint can return in this scope
AnswerPool == IF scope = "answers" THEN 1 .. MaxAnswerId ELSE {1}
ItemsBound == IF scope = "answers" THEN MaxItems ELSE 1

IsInjective(s) == \A a, b \in DOMAIN s : s[a] = s[b] => a = b

AnswerResponses(batch) ==
    LET of == {a \in AnswerPool : RawAnswer(a).question_id \in Range(batch)}
    IN  {[status |-> 200, items |-> its, quota_remaining |-> qr] :
            its \in {s \in SeqsUpTo(of, ItemsBound) : IsInjective(s)}, qr \in AnswerQuotas}
        \cup {[status |-> 500, items |-> <<>>, quota_remaining |-> 0]}

(***************************************************************************)
(* fetch_answers_for_questions                                             *)
(***************************************************************************)
\* batch_size of line 201 is 100; the model's requests take two ids, so that
\* a call of three ids issues two requests
ApiBatchSize == 2
LowAnswerQuota == 100
NoAnswers == [q \in {} |-> [accepted |-> <<>>, others |-> <<>>]]
Min(a, b) == IF a < b THEN a ELSE b

\* lines 238-243
AnswerData(answer) ==
    [answer_id |-> answer.answer_id,
     score |-> Get(answer, "score", 0),
     user_id |-> Get(Get(answer, "owner", [none |-> 0]), "user_id", "unknown"),
     text |-> clean_html(Get(answer, "body", <<>>))]

\* lines 233-249, for one answer
GroupOne(aa, answer) ==
    LET qid == answer.question_id
        aa1 == IF qid \in DOMAIN aa THEN aa
               ELSE (qid :> [accepted |-> <<>>, others |-> <<>>]) @@ aa
    IN  IF Get(answer, "is_accepted", FALSE)
        THEN [aa1 EXCEPT ![qid].accepted = Append(@, AnswerData(answer))]
        ELSE [aa1 EXCEPT ![qid].others = Append(@, AnswerData(answer))]

RECURSIVE GroupAnswers(_, _)
\* lines 232-249: `for answer in answers`
GroupAnswers(aa, answers) ==
    IF answers = <<>> THEN aa
    ELSE GroupAnswers(GroupOne(aa, RawAnswer(Head(answers))), Tail(answers))

RECURSIVE InsertByScore(_, _)
\* x goes behind every element whose score is at least its own
InsertByScore(x, sorted) ==
    IF sorted = <<>> THEN <<x>>
    ELSE IF Head(sorted).score >= x.score
         THEN <<Head(sorted)>> \o InsertByScore(x, Tail(sorted))
         ELSE <<x>> \o sorted

\* a faulty variant, as if line 264 were missing: the others stay in arrival order
SortByScore_None(s) == s

RECURSIVE SortByScore(_)
\* line 264: list.sort(key=score, reverse=True), which is stable
SortByScore(s) ==
    IF s = <<>> THEN <<>>
    ELSE InsertByScore(s[Len(s)], SortByScore(SubSeq(s, 1, Len(s) - 1)))

\* line 266: others[:top_n], top_n >= 0
Limit(s, n) == SubSeq(s, 1, Min(n, Len(s)))

\* lines 262-266
SortAndLimit(aa, n) ==
    [q \in DOMAIN aa |-> [accepted |-> aa[q].accepted,
                          others |-> Limit(SortByScore(aa[q].others), n)]]

\* lines 197-205: the call; an empty list returns {} at once
CallFetcher(ids, n) ==
    /\ question_ids' = ids
    /\ top_n' = n
    /\ fi' = 0
    /\ all_answers' = NoAnswers
    /\ got' = <<>>
    /\ fpc' = IF ids = <<>> THEN "returned" ELSE "http"

FetcherGone ==
    /\ fpc' = "idle"
    /\ question_ids' = <<>> /\ top_n' = 0 /\ fi' = 0
    /\ all_answers' = NoAnswers /\ got' = <<>>

\* lines 204-268: one request of the batch loop, and, when the loop is over,
\* the sorting and the return
AnswerRequest ==
    /\ fpc = "http"
    /\ LET batch == SubSeq(question_ids, fi + 1, Min(fi + ApiBatchSize, Len(question_ids)))
       IN \E resp \in AnswerResponses(batch) :
            LET ok == resp.status = 200
                grouped == IF ok THEN GroupAnswers(all_answers, resp.items) ELSE all_answers
                stop == (ok /\ resp.quota_remaining < LowAnswerQuota)
                        \/ fi + ApiBatchSize >= Len(question_ids)
            IN  /\ got' = IF ok THEN got \o resp.items ELSE got
                /\ jfetches' = IF scope = "pipeline"
                               THEN Append(jfetches, [ids |-> batch, status |-> resp.status,
                                        quota |-> IF ok THEN resp.quota_remaining ELSE 0])
                               ELSE jfetches
                /\ IF stop
                   THEN /\ all_answers' = SortAndLimit(grouped, top_n)
                        /\ fpc' = "returned"
                        /\ fi' = fi
                   ELSE /\ all_answers' = grouped
                        /\ fpc' = "http"
                        /\ fi' = fi + ApiBatchSize
    /\ UNCHANGED <<scope, qfile, tfile, cvars, question_ids, top_n, jpc, jlocals, table0>>

\* the Answer Fetcher called on its own
AnswerQuestionIds == {1, 2, 3}
BucketCall ==
    /\ scope = "answers" /\ fpc = "idle"
    /\ \E ids \in {s \in SeqsUpTo(AnswerQuestionIds, 3) : IsInjective(s)}, n \in 0 .. MaxTopN :
        CallFetcher(ids, n)
    /\ UNCHANGED <<scope, qfile, tfile, cvars, jvars>>

BucketReturn ==
    /\ scope = "answers" /\ fpc = "returned"
    /\ FetcherGone
    /\ UNCHANGED <<scope, qfile, tfile, cvars, jvars>>

(***************************************************************************)
(* The table file: absent, a CSV of rows, or a file pandas cannot parse.   *)
(* read_csv turns an empty cell (and the other strings of its na_values)   *)
(* into NaN, and to_csv writes NaN as an empty cell.                       *)
(***************************************************************************)
NaN == "NaN"
NaValues == {"", "NaN", "nan", "NA", "N/A", "NULL", "null", "None"}
TextColumns == {"title", "body", "tags", "accepted_answer",
                "top_answer_1", "top_answer_2", "top_answer_3"}
ReadCell(c) == IF c \in NaValues THEN NaN ELSE c
WriteCell(c) == IF c = NaN THEN "" ELSE c
read_csv(data) ==
    [k \in DOMAIN data |->
        [f \in DOMAIN data[k] |-> IF f \in TextColumns THEN ReadCell(data[k][f]) ELSE data[k][f]]]
to_csv(df) ==
    [state |-> "ok",
     data |-> [k \in DOMAIN df |->
        [f \in DOMAIN df[k] |-> IF f \in TextColumns THEN WriteCell(df[k][f]) ELSE df[k][f]]]]
TableIds(rows) == {rows[k].question_id : k \in DOMAIN rows}

(***************************************************************************)
(* process_questions_with_answers                                          *)
(***************************************************************************)
BatchSizes == {1, 2}    \* values of batch_size
JoinerTopNs == {3}      \* values of top_n in a Joiner run

\* lines 350 and 357
Format(answer) ==
    "[User " \o answer.user_id \o " | Score: " \o ToString(answer.score) \o "]: " \o answer.text

\* lines 322-358: the row of one question
Row(question, answers_data) ==
    LET qid == question.question_id
        has == qid \in DOMAIN answers_data
        tops == IF has THEN Limit(answers_data[qid].others, 3) ELSE <<>>
        top(k) == IF k <= Len(tops) THEN Format(tops[k]) ELSE ""
    IN  [question_id |-> qid,
         title |-> Get(question, "title", ""),
         body |-> clean_html(Get(question, "body", <<>>)),
         score |-> Get(question, "score", 0),
         view_count |-> Get(question, "view_count", 0),
         answer_count |-> Get(question, "answer_count", 0),
         tags |-> Get(question, "tags", ""),
         accepted_answer |-> IF has /\ answers_data[qid].accepted # <<>>
                             THEN Format(answers_data[qid].accepted[1]) ELSE "",
         top_answer_1 |-> top(1),
         top_answer_2 |-> top(2),
         top_answer_3 |-> top(3)]

\* to_process[i : i + batch_size]
Batch == SubSeq(to_process, i + 1, Min(i + batch_size, Len(to_process)))

\* a faulty variant, as if line 303 filtered nothing
Filter_None(qs, done) == qs

RECURSIVE Filter(_, _)
\* line 303
Filter(qs, done) ==
    IF qs = <<>> THEN <<>>
    ELSE IF Head(qs).question_id \notin done
         THEN <<Head(qs)>> \o Filter(Tail(qs), done)
         ELSE Filter(Tail(qs), done)

JoinerGone ==
    /\ jpc' = "idle"
    /\ batch_size' = 1 /\ jtop_n' = 0
    /\ existing_df' = <<>> /\ processed_ids' = {} /\ to_process' = <<>>
    /\ i' = 0 /\ results' = <<>>
    /\ table0' = Absent /\ jfetches' = <<>>

\* lines 286-308: load the questions (json.load raising on a torn file ends
\* the call, and so does an empty list), read the table, filter
JoinStart ==
    /\ jpc = "idle" /\ cpc = "idle" /\ scope = "pipeline"
    /\ IF LoadRaises(qfile) \/ load_questions(qfile) = <<>>
       THEN UNCHANGED jvars
       ELSE LET readable == tfile.state = "ok"
                df == IF readable THEN read_csv(tfile.data) ELSE <<>>
                ids == IF readable THEN TableIds(df) ELSE {}
                todo == Filter(load_questions(qfile), ids)
            IN  /\ \E bs \in BatchSizes, n \in JoinerTopNs :
                    /\ batch_size' = bs
                    /\ jtop_n' = n
                /\ existing_df' = df
                /\ processed_ids' = ids
                /\ to_process' = todo
                /\ results' = <<>>
                /\ i' = 0
                /\ table0' = tfile
                /\ jfetches' = <<>>
                /\ jpc' = IF todo = <<>> THEN "done" ELSE "batch"
    /\ UNCHANGED <<scope, qfile, tfile, cvars, fvars>>

\* lines 309-318: the ids of the batch, and the call of the Answer Fetcher
BatchBegin ==
    /\ jpc = "batch"
    /\ CallFetcher([k \in DOMAIN Batch |-> Batch[k].question_id], jtop_n)
    /\ jpc' = "fetching"
    /\ UNCHANGED <<scope, qfile, tfile, cvars, jlocals, jobs>>

\* lines 320-360: the Answer Fetcher has returned; one row per question of the batch
JoinRows ==
    /\ jpc = "fetching" /\ fpc = "returned"
    /\ results' = results \o [k \in DOMAIN Batch |-> Row(Batch[k], all_answers)]
    /\ FetcherGone
    /\ jpc' = "persist"
    /\ UNCHANGED <<scope, qfile, tfile, cvars, batch_size, jtop_n, existing_df, processed_ids,
                   to_process, i, jobs>>

\* a faulty variant, as if lines 365-370 were missing: the table is always written fresh
Persist_Fresh ==
    /\ jpc = "persist"
    /\ IF results # <<>>
       THEN tfile' = to_csv(results)
       ELSE UNCHANGED tfile
    /\ i' = i + batch_size
    /\ jpc' = IF i + batch_size < Len(to_process) THEN "batch" ELSE "done"
    /\ UNCHANGED <<scope, qfile, cvars, fvars, batch_size, jtop_n, existing_df, processed_ids,
                   to_process, results, jobs>>

\* lines 362-375 and the loop header of line 308
Persist ==
    /\ jpc = "persist"
    /\ IF results # <<>>
       THEN IF tfile.state # "absent" /\ processed_ids # {}
            THEN tfile' = to_csv(existing_df \o results)
            ELSE tfile' = to_csv(results)
       ELSE UNCHANGED tfile
    /\ i' = i + batch_size
    /\ jpc' = IF i + batch_size < Len(to_process) THEN "batch" ELSE "done"
    /\ UNCHANGED <<scope, qfile, cvars, fvars, batch_size, jtop_n, existing_df, processed_ids,
                   to_process, results, jobs>>

\* the process ends inside a run (Ctrl-C, or requests.get raising, which
\* nothing in the Joiner catches), between two writes of the table
JoinKilled ==
    /\ jpc \in {"batch", "fetching", "persist"}
    /\ JoinerGone
    /\ FetcherGone
    /\ UNCHANGED <<scope, qfile, tfile, cvars>>

\* line 377
JoinReturn ==
    /\ jpc = "done"
    /\ JoinerGone
    /\ UNCHANGED <<scope, qfile, tfile, cvars, fvars>>

JoinerNext ==
    \/ JoinStart
    \/ BatchBegin
    \/ AnswerRequest
    \/ JoinRows
    \/ Persist
    \/ JoinKilled
    \/ JoinReturn

(***************************************************************************)
(* The specifications: step1_only (the Collector, run again and again),    *)
(* main and step2_only (Collector runs and Joiner runs in any order), and  *)
(* the Answer Fetcher called on its own.                                   *)
(***************************************************************************)
Idle ==
    /\ qfile = Absent
    /\ cpc = "idle"
    /\ start_page = 0 /\ max_pages = 0 /\ save_interval = 1 /\ page_num = 0
    /\ all_questions = <<>> /\ existing_ids = {} /\ questions = <<>>
    /\ quota = 0 /\ new_count = 0 /\ idx = 0
    /\ loaded = <<>> /\ fetches = <<>> /\ saves = <<>> /\ returned = {} /\ exit = "none"
    /\ fpc = "idle"
    /\ question_ids = <<>> /\ top_n = 0 /\ fi = 0 /\ all_answers = NoAnswers /\ got = <<>>
    /\ jpc = "idle"
    /\ batch_size = 1 /\ jtop_n = 0
    /\ existing_df = <<>> /\ processed_ids = {} /\ to_process = <<>>
    /\ i = 0 /\ results = <<>>
    /\ table0 = Absent /\ jfetches = <<>>

InitCollector == Idle /\ scope = "collector" /\ tfile = Absent
InitLiveness == Idle /\ scope = "liveness" /\ tfile = Absent
Init == Idle /\ scope = "pipeline" /\ tfile \in {Absent, Torn}
InitAnswers == Idle /\ scope = "answers" /\ tfile = Absent

Next == CollectorNext \/ JoinerNext
AnswersNext == BucketCall \/ AnswerRequest \/ BucketReturn

\* a step of a Collector run that has started: the interpreter goes on, every
\* request returns or raises, every write returns or raises
CollectorStep ==
    \/ FetchPage \/ MergeAppend \/ MergeAdd \/ IntervalSave \/ IntervalSaveRaises \/ QuotaCheck
    \/ LookAhead \/ FetchRaises \/ FinalSave \/ FinalSaveRaises \/ CollectReturn

SpecCollector == InitCollector /\ [][CollectorNext]_vars
FairCollector == InitLiveness /\ [][CollectorNext]_vars /\ WF_vars(CollectorStep)
Spec == Init /\ [][Next]_vars
SpecAnswers == InitAnswers /\ [][AnswersNext]_vars

(***************************************************************************)
(* The claims.                                                             *)
(***************************************************************************)
IsPrefix(s, t) == Len(s) <= Len(t) /\ SubSeq(t, 1, Len(s)) = s
NoDup(qs) == \A a, b \in DOMAIN qs : qs[a].question_id = qs[b].question_id => a = b
LastFetch == fetches[Len(fetches)]

\* one step of a Collector run, as C1 wants it: the loop is left towards
\* line 162 only; the collection only grows, from what was loaded; line 162
\* writes all of it, or save_questions raises
C1_Step ==
    /\ cpc \in InLoop =>
        /\ cpc' \in InLoop \cup {"final"}
        /\ IsPrefix(loaded, all_questions)
        /\ IsPrefix(all_questions, all_questions')
    /\ cpc = "final" =>
        \/ /\ cpc' = "done"
           /\ all_questions' = all_questions
           /\ IsPrefix(loaded, all_questions)
           /\ qfile' = save_questions(all_questions)
        \/ /\ cpc' = "idle"
           /\ qfile' \in FailedSave(qfile)

\* C1: on every way out of the page loop (range exhausted, quota, end of
\* results, KeyboardInterrupt, any exception of a fetch or of an interval
\* save) the final save_questions(all_questions, output_file) is eventually
\* performed, with every record loaded at the start and every record
\* appended since.
C1_FinalSaveOnEveryExit ==
    /\ [][C1_Step]_vars
    /\ (cpc \in InLoop) ~> (cpc \in {"done", "idle"})

\* a run that loaded records, appended one, was hit by an exception, and saved
C1_Witness ==
    /\ cpc = "done" /\ exit = "exception"
    /\ loaded # <<>> /\ Len(all_questions) > Len(loaded)
    /\ qfile = save_questions(all_questions)

\* C3: from a stored collection without duplicate ids, the Collector, run
\* any number of times, never holds or stores two records of one id, and
\* what it holds is bounded by the distinct ids that were stored at the
\* start of the run or returned by the API, whatever ids the pages repeat.
C3_Deduplication ==
    /\ NoDup(all_questions)
    /\ qfile.state = "ok" => NoDup(qfile.data)
    /\ QIds(all_questions) \subseteq QIds(loaded) \cup returned
    /\ Len(all_questions) <= Cardinality(QIds(loaded) \cup returned)

\* a second run over pages whose ids are all stored already, one page
\* holding the same id twice: nothing is added
C3_Witness ==
    /\ cpc = "done" /\ exit = "range"
    /\ loaded # <<>> /\ all_questions = loaded
    /\ returned # {} /\ returned \subseteq QIds(loaded)
    /\ fetches # <<>> /\ LastFetch.n = 2 /\ Cardinality(QIds(questions)) = 1
    /\ qfile = save_questions(loaded)

\* the run ended the way the code means it to, and not by Ctrl-C or an exception
NormalExit == cpc \in {"final", "done"} /\ exit \in {"range", "quota", "end"}

\* C4: when a page fetch reports a quota below 5, no request follows it
\* (neither for the next page nor the look-ahead), the questions of that
\* page are merged first, and the final save holds them.
C4_QuotaStop ==
    /\ Len(fetches) = 2 => ~(fetches[1].kind = "loop" /\ fetches[1].quota < LowQuota)
    /\ (fetches # <<>> /\ LastFetch.kind = "loop" /\ LastFetch.quota < LowQuota) =>
        /\ cpc \notin {"fetch", "lookahead"}
        /\ NormalExit => /\ exit = "quota"
                         /\ QIds(questions) \subseteq QIds(all_questions)
        /\ (cpc = "done" /\ exit = "quota") =>
                /\ qfile.state = "ok"
                /\ QIds(questions) \subseteq QIds(qfile.data)

\* quota_remaining = 3 on a page that brought a new question, with a page
\* left in the range: the run is over, and the question is in the file
C4_Witness ==
    /\ cpc = "done" /\ exit = "quota"
    /\ LastFetch.kind = "loop" /\ LastFetch.quota = 3 /\ LastFetch.new > 0
    /\ LastFetch.page < start_page + max_pages - 1
    /\ QIds(questions) \subseteq QIds(qfile.data)

\* the run stopped on the end of the results: an empty page, then an empty look-ahead
EndOfResults ==
    /\ Len(fetches) = 2
    /\ fetches[1].kind = "loop" /\ fetches[1].n = 0 /\ fetches[1].quota >= LowQuota
    /\ fetches[2].kind = "lookahead" /\ fetches[2].n = 0
    /\ fetches[2].page = fetches[1].page + 1

\* C5 as claimed: from the first of two consecutive empty responses on, the
\* run calls save_questions once, the final save, whatever start_page and
\* save_interval are.
C5_OnePersist_Claimed ==
    (cpc = "done" /\ EndOfResults) => Len(saves) - fetches[1].saved = 1

\* C5 as amended: two consecutive empty responses end the run without an
\* error; after the second one save_questions is called once, the final save;
\* between the two, the interval save of the empty page is made exactly when
\* its number is a multiple of save_interval.
C5_OnePersist_Amended ==
    /\ EndOfResults => (cpc \in {"final", "done"} /\ exit = "end")
    /\ (cpc = "done" /\ EndOfResults) =>
        /\ Len(saves) - fetches[2].saved = 1
        /\ saves[Len(saves)].kind = "final" /\ saves[Len(saves)].ok
        /\ fetches[2].saved - fetches[1].saved
             = (IF fetches[1].page % save_interval = 0 THEN 1 ELSE 0)
        /\ \A k \in DOMAIN saves : k > fetches[1].saved /\ k < Len(saves) =>
                (saves[k].kind = "interval" /\ saves[k].page = fetches[1].page)

\* the end of the results at a page that is a multiple of save_interval:
\* two saves since the empty page
C5_Witness ==
    /\ cpc = "done" /\ EndOfResults /\ exit = "end"
    /\ fetches[1].page % save_interval = 0
    /\ Len(saves) - fetches[1].saved = 2

\* C6 as claimed: a non-success status for page p, p not the last page of the
\* range, is taken for zero results and the loop goes on to fetch page p + 1.
C6_FailureNotFatal_Claimed ==
    \A k \in DOMAIN fetches :
        (/\ NormalExit
         /\ fetches[k].kind = "loop" /\ fetches[k].status # 200
         /\ fetches[k].page < start_page + max_pages - 1)
        => page_num > fetches[k].page

\* C10 as claimed: once a page brought nothing new (empty, or stored ids
\* only) and the request for the page after it brought nothing at all, no
\* later page is requested.
C10_Confirmation_Claimed ==
    Len(fetches) = 2 =>
        ~(/\ fetches[1].after_stale /\ fetches[1].n = 0
          /\ fetches[2].page > fetches[1].page)

\* C10 as amended: the confirmation starts on an empty page only (a page of
\* stored ids does not start it); an empty look-ahead ends the run and no
\* request follows it; the run ends on the end of the results in no other
\* way.  A look-ahead that is not empty stops nothing: its questions are
\* dropped, and the loop requests that page again if the range holds it.
\* Whenever the loop is through with a page, the page's ids are stored.
C10_Confirmation_Amended ==
    /\ cpc = "lookahead" => (Len(questions) = 0 /\ quota >= LowQuota)
    /\ \A k \in DOMAIN fetches : (fetches[k].kind = "lookahead" /\ k > 1) =>
            /\ fetches[k - 1].kind = "loop" /\ fetches[k - 1].n = 0
            /\ fetches[k - 1].page = fetches[k].page - 1
    /\ Len(fetches) = 2 => ~(fetches[1].kind = "lookahead" /\ fetches[1].n = 0)
    /\ (cpc \in {"final", "done"} /\ exit = "end") => EndOfResults
    /\ (fetches # <<>> /\ LastFetch.kind = "lookahead") =>
            IF LastFetch.n = 0
            THEN cpc \in {"final", "done"} /\ exit = "end"
            ELSE \/ cpc = "fetch" /\ page_num = LastFetch.page
                 \/ /\ cpc \in {"final", "done"}
                    /\ exit \in {"exception", "interrupt"} \/
                       (exit = "range" /\ LastFetch.page = start_page + max_pages)
    /\ (cpc \in {"interval", "check", "lookahead"} \/ NormalExit) =>
            QIds(questions) \subseteq QIds(all_questions)

\* an early stop: an empty page and an empty look-ahead, with pages left
C10_Witness ==
    /\ cpc = "done" /\ exit = "end" /\ EndOfResults
    /\ fetches[2].page < start_page + max_pages

\* C2: whatever Collector runs and Joiner runs came before, finished or
\* stopped between two batches, the output table never holds two rows of one
\* question_id.
C2_UniqueRows ==
    tfile.state = "ok" => NoDup(tfile.data)

\* a Joiner run over a questions file whose questions are all in the table
\* already: nothing is left to process, and the table stays as it was
C2_Witness ==
    /\ jpc = "done" /\ table0.state = "ok"
    /\ Len(table0.data) >= 2
    /\ to_process = <<>> /\ jfetches = <<>>
    /\ tfile = table0
    /\ TableIds(tfile.data) = QIds(load_questions(qfile))

\* the rows of the table that the running Joiner has added to the table it found
NewRows == SubSeq(tfile.data, Len(table0.data) + 1, Len(tfile.data))
\* how many questions of to_process the Joiner has persisted
Persisted == IF jpc \in {"batch", "done"} THEN Min(i, Len(to_process)) ELSE i

\* C7: a Joiner run that finds a table with rows for the ids P and a
\* questions file with the ids Q requests answers for ids of Q \ P only,
\* keeps every row it found, in place and unchanged, and adds one row for
\* each question persisted so far; at the end the table holds the old rows
\* and exactly one new row for each id of Q \ P.
C7_Resumability ==
    (jpc # "idle" /\ table0.state = "ok") =>
        LET Q == QIds(load_questions(qfile))
            P == TableIds(table0.data)
        IN  /\ processed_ids = P
            /\ QIds(to_process) = Q \ P
            /\ \A k \in DOMAIN jfetches : Range(jfetches[k].ids) \subseteq Q \ P
            /\ tfile.state = "ok"
            /\ IsPrefix(table0.data, tfile.data)
            /\ Len(NewRows) = Persisted
            /\ \A k \in DOMAIN NewRows : NewRows[k].question_id = to_process[k].question_id
            /\ NoDup(tfile.data)
            /\ jpc = "done" =>
                /\ TableIds(tfile.data) = P \cup Q
                /\ Len(tfile.data) = Len(table0.data) + Cardinality(Q \ P)

\* a table with a row already, a questions file with one more question: the
\* run asked for that question's answers and added its row
C7_Witness ==
    /\ jpc = "done" /\ table0.state = "ok"
    /\ TableIds(table0.data) # {}
    /\ to_process # <<>> /\ jfetches # <<>>
    /\ Len(tfile.data) = Len(table0.data) + Len(to_process)
    /\ \E k \in DOMAIN tfile.data : tfile.data[k].accepted_answer # ""

\* C9 as claimed: when an answers response reports a quota below 100, the
\* Joiner issues no answer request for a later batch.
C9_QuotaExit_Claimed ==
    \A k \in DOMAIN jfetches :
        (jfetches[k].status = 200 /\ jfetches[k].quota < LowAnswerQuota) => k = Len(jfetches)

\* the fetched answers of question q, by the accepted flag, as positions of got
Fetched(q, flag) ==
    {k \in DOMAIN got : /\ RawAnswer(got[k]).question_id = q
                        /\ Get(RawAnswer(got[k]), "is_accepted", FALSE) = flag}
AnswerIds(list) == {list[k].answer_id : k \in DOMAIN list}

Bucketed(q) ==
    LET accepted == all_answers[q].accepted
        others == all_answers[q].others
        notAccepted == {got[k] : k \in Fetched(q, FALSE)}
    IN  /\ Len(accepted) = Cardinality(Fetched(q, TRUE))
        /\ Len(others) = Min(Cardinality(Fetched(q, FALSE)), top_n)
        /\ AnswerIds(accepted) = {got[k] : k \in Fetched(q, TRUE)}
        /\ AnswerIds(others) \subseteq notAccepted
        /\ Cardinality(AnswerIds(others)) = Len(others)
        /\ \A k \in 1 .. Len(others) - 1 : others[k].score >= others[k + 1].score
        /\ \A a \in notAccepted \ AnswerIds(others) : \A k \in DOMAIN others :
                Get(RawAnswer(a), "score", 0) <= others[k].score
        /\ \A k \in DOMAIN others : others[k].score = Get(RawAnswer(others[k].answer_id), "score", 0)

\* C8: in what fetch_answers_for_questions returns, a question with N fetched
\* answers flagged accepted and M not flagged has N accepted answers and
\* min(M, top_n) others; the others are in non-increasing order of score and
\* are the highest-scored of the M; no answer is in both lists or under a
\* question that is not its own.
C8_Bucketing ==
    fpc = "returned" =>
        /\ DOMAIN all_answers = {RawAnswer(got[k]).question_id : k \in DOMAIN got}
        /\ \A q \in DOMAIN all_answers : Bucketed(q)

\* one accepted answer and two others, the lower-scored of the two fetched
\* first, top_n = 1: the higher-scored one is returned
C8_Witness ==
    /\ fpc = "returned" /\ top_n = 1
    /\ 1 \in DOMAIN all_answers
    /\ Cardinality(Fetched(1, TRUE)) = 1 /\ Cardinality(Fetched(1, FALSE)) = 2
    /\ \E a, b \in Fetched(1, FALSE) :
        /\ a < b
        /\ Get(RawAnswer(got[a]), "score", 0) < Get(RawAnswer(got[b]), "score", 0)
        /\ all_answers[1].others[1].answer_id = got[b]

====
